---- MODULE Spec2Model ----
(***************************************************************************)
(* eventz marshalling engine (Marshall) and name resolver (FqnResolver).   *)
(*                                                                         *)
(* Python strings that the code inspects character by character (paths,    *)
(* fqns, codec names) are sequences of one-character strings, so           *)
(* <<"a", ".", "b">> is the Python string "a.b".  Attribute names and      *)
(* dict keys, which the code only compares and prefix-tests, are TLA+      *)
(* strings.                                                                *)
(***************************************************************************)
EXTENDS Integers, Sequences, FiniteSets, TLC

VARIABLES
    fqn_map,              \* the Dict handed to FqnResolver.__init__, as a sequence of <<public, private>> items in dict order
    _public_to_private,   \* FqnResolver._public_to_private
    _private_to_public,   \* FqnResolver._private_to_public
    _codecs,              \* Marshall._codecs, as a sequence of [fcn, codec] items in dict order
    reg_log,              \* history of the registered names: called, by their last register_codec call, and
                          \* placed, by their first since they were last absent; oldest first
    call                  \* the last call made on the resolver or the marshall, with what it returned or raised

vars == <<fqn_map, _public_to_private, _private_to_public, _codecs, reg_log, call>>

-----------------------------------------------------------------------------
(* Bounds *)

MaxEntries == 2           \* items in fqn_map
MaxLen == 2               \* items in a list, tuple or dict given to the marshall
RecursionLimit == 5       \* the interpreter's recursion limit, in frames of serialise_data

-----------------------------------------------------------------------------
(* Python strings *)

Front(s) == SubSeq(s, 1, Len(s) - 1)

Chars(s) == {s[i] : i \in 1..Len(s)}

RECURSIVE split(_)
\* str.split("."): the segments between the dots, empty segments kept
split(s) ==
    IF "." \notin Chars(s) THEN <<s>>
    ELSE LET i == CHOOSE k \in 1..Len(s) : s[k] = "." /\ \A j \in 1..(k - 1) : s[j] # "."
         IN  <<SubSeq(s, 1, i - 1)>> \o split(SubSeq(s, i + 1, Len(s)))

RECURSIVE join(_)
\* ".".join(parts)
join(parts) ==
    IF Len(parts) = 0 THEN <<>>
    ELSE IF Len(parts) = 1 THEN parts[1]
    ELSE parts[1] \o <<".">> \o join(Tail(parts))

\* str.rsplit(".", 1): at most one split, at the last dot
rsplit1(s) ==
    IF "." \notin Chars(s) THEN <<s>>
    ELSE LET i == CHOOSE k \in 1..Len(s) : s[k] = "." /\ \A j \in (k + 1)..Len(s) : s[j] # "."
         IN  <<SubSeq(s, 1, i - 1), SubSeq(s, i + 1, Len(s))>>

RECURSIVE Text(_)
\* the characters of s as one attribute name
Text(s) == IF s = <<>> THEN "" ELSE s[1] \o Text(Tail(s))

\* What a resolver method returns (exc = "") or raises (exc names the exception)
Ok(v) == [exc |-> "", val |-> v]
Raise(e) == [exc |-> e, val |-> <<>>]

-----------------------------------------------------------------------------
(* FqnResolver *)

\* {b: a for a, b in fqn_map.items()}: a later item overwrites an earlier one with the same private path
ReverseDict(items) ==
    LET keys == {items[i][2] : i \in 1..Len(items)}
        last(k) == CHOOSE i \in 1..Len(items) :
                       items[i][2] = k /\ \A j \in (i + 1)..Len(items) : items[j][2] # k
    IN  [k \in keys |-> items[last(k)][1]]

\* the Dict itself: fqn_map's keys are distinct, as a dict's are
ForwardDict(items) ==
    [k \in {items[i][1] : i \in 1..Len(items)} |->
        items[CHOOSE i \in 1..Len(items) : items[i][1] = k][2]]

_lookup_fqn(key, public) ==
    IF public
    THEN IF key \in DOMAIN _public_to_private THEN Ok(_public_to_private[key]) ELSE Raise("KeyError")
    ELSE IF key \in DOMAIN _private_to_public THEN Ok(_private_to_public[key]) ELSE Raise("KeyError")

\* A plausible bug: the wildcard entry is tried before the exact one
_get_fqn_wildcard_first(key, public) ==
    LET parts == split(key)
        star == _lookup_fqn(join(Front(parts) \o << <<"*">> >>), public)
    IN  IF key # <<>> /\ key[Len(key)] # "*" /\ "." \in Chars(key) /\ star.exc = ""
        THEN Ok(Front(star.val) \o parts[Len(parts)])
        ELSE _lookup_fqn(key, public)

\* A plausible bug: the wildcard marker is left on the matched path
_get_fqn_keeps_star(key, public) ==
    LET exact == _lookup_fqn(key, public)
        parts == split(key)
        star == _lookup_fqn(join(Front(parts) \o << <<"*">> >>), public)
    IN  IF exact.exc = "" THEN exact
        ELSE IF key = <<>> THEN Raise("IndexError")
        ELSE IF key[Len(key)] # "*" /\ "." \in Chars(key)
             THEN IF star.exc # "" THEN star ELSE Ok(star.val \o parts[Len(parts)])
             ELSE exact

_get_fqn(key, public) ==
    LET exact == _lookup_fqn(key, public)
    IN  IF exact.exc = "" THEN exact
        ELSE \* except KeyError as e:
             IF key = <<>> THEN Raise("IndexError")          \* key[-1] of the empty string
             ELSE IF key[Len(key)] # "*" /\ "." \in Chars(key)
                  THEN LET parts == split(key)
                           entity == parts[Len(parts)]        \* parts.pop()
                           star_key == join(Front(parts) \o << <<"*">> >>)
                           path == _lookup_fqn(star_key, public)
                       IN  IF path.exc # "" THEN path
                           ELSE Ok(Front(path.val) \o entity) \* path[:-1] + entity
                  ELSE exact                                  \* raise e

\* The classes that exist, by module path; "x" stands for a module such as
\* tests.example.example_aggregate and "b" for a class of it such as ExampleCreated
Modules == {<<"x">>}
Types == {<<"x", ".", "b">>, <<"x", ".", "c">>, <<"x", ".", "d">>}

\* fqn_to_type returns the class, named here by its module path
fqn_to_type(fqn) ==
    LET module_path == _get_fqn(fqn, TRUE)
    IN  IF module_path.exc # "" THEN module_path
        ELSE LET mc == rsplit1(module_path.val)
             IN  IF Len(mc) # 2 THEN Raise("ValueError")              \* the unpacking of rsplit
                 ELSE IF mc[1] = <<>> THEN Raise("ValueError")        \* import_module("")
                 ELSE IF mc[1] \notin Modules THEN Raise("ModuleNotFoundError")
                 ELSE IF module_path.val \notin Types THEN Raise("AttributeError")
                 ELSE Ok(module_path.val)

\* instance is given by its class's path, __module__ + "." + __name__
instance_to_fqn(path) == _get_fqn(path, FALSE)

-----------------------------------------------------------------------------
(* The resolver on its own: any fqn_map within the bounds, then lookups *)

PublicPaths == {<<"a", ".", "b">>, <<"a", ".", "c">>, <<"a", ".", "*">>, <<"b">>}
PrivatePaths == {<<"x", ".", "b">>, <<"x", ".", "c">>, <<"x", ".", "*">>}

\* the fqns a payload may carry
Fqns == PublicPaths \cup {<<"a", ".", "d">>, <<"d", ".", "b">>, <<"d">>, <<>>,
                          <<"a", ".", "b", "*">>, <<"d", ".", "*">>}

RECURSIVE SeqsUpTo(_, _)
SeqsUpTo(S, n) ==
    IF n = 0 THEN {<<>>}
    ELSE LET shorter == SeqsUpTo(S, n - 1)
         IN  shorter \cup {Append(s, x) : s \in {q \in shorter : Len(q) = n - 1}, x \in S}

FqnMaps ==
    {m \in SeqsUpTo(PublicPaths \X PrivatePaths, MaxEntries) :
        \A i, j \in 1..Len(m) : i # j => m[i][1] # m[j][1]}

NoCall == [op |-> "none"]
NoLog == [called |-> <<>>, placed |-> <<>>]

\* FqnResolver.__init__
ResolverInit(m) ==
    /\ fqn_map = m
    /\ _public_to_private = ForwardDict(m)
    /\ _private_to_public = ReverseDict(m)

InitResolver ==
    /\ \E m \in FqnMaps : ResolverInit(m)
    /\ _codecs = <<>>
    /\ reg_log = NoLog
    /\ call = NoCall

FqnToType(fqn) ==
    /\ call' = [op |-> "fqn_to_type", key |-> fqn, path |-> _get_fqn(fqn, TRUE), ret |-> fqn_to_type(fqn)]
    /\ UNCHANGED <<fqn_map, _public_to_private, _private_to_public, _codecs, reg_log>>

InstanceToFqn(path) ==
    /\ call' = [op |-> "instance_to_fqn", key |-> path, path |-> _get_fqn(path, FALSE), ret |-> instance_to_fqn(path)]
    /\ UNCHANGED <<fqn_map, _public_to_private, _private_to_public, _codecs, reg_log>>

NextResolver ==
    \/ \E fqn \in Fqns : FqnToType(fqn)
    \/ \E path \in Types : InstanceToFqn(path)

SpecResolver == InitResolver /\ [][NextResolver]_vars

-----------------------------------------------------------------------------
(* Python values.  Every value is a record with a tag t; an exception that    *)
(* propagates out of a call is the value PExc(name).                          *)

PNone == [t |-> "None"]
PInt(n) == [t |-> "int", n |-> n]
PStr(s) == [t |-> "str", s |-> s]
PDatetime(ts) == [t |-> "datetime", ts |-> ts]
PList(items) == [t |-> "list", items |-> items]
PTuple(items) == [t |-> "tuple", items |-> items]
PDict(m) == [t |-> "dict", m |-> m]
PMap(m) == [t |-> "Map", m |-> m]                 \* immutables.Map
PSet(elems) == [t |-> "set", elems |-> elems]
\* an instance of the class at path cls whose instance attributes (vars(obj)) are attrs
PObj(cls, attrs) == [t |-> "obj", cls |-> cls, attrs |-> attrs]
\* a reference back to the value the outermost call was given: the element of a
\* list that is the list itself, the field of an object that is the object
PSelf == [t |-> "self"]
PExc(e) == [t |-> "raise", exc |-> e]

IsExc(v) == v.t = "raise"

EmptyDict == [k \in {} |-> PNone]

\* dict iteration order: the keys a dict of the model may hold, in the order
\* its items are visited (the sorted order json.loads yields for to_json's text)
KeyOrder == <<"__codec__", "__fqn__", "__msgid__", "__timestamp__", "__version__",
              "_name_", "_value_", "by", "example_id", "get_json_data", "items",
              "k", "kind", "msgid", "param_one", "param_two", "params",
              "timestamp", "uuid">>

\* the keys of m in iteration order
RECURSIVE ItemsFrom(_, _)
ItemsFrom(m, i) ==
    IF i > Len(KeyOrder) THEN <<>>
    ELSE (IF KeyOrder[i] \in DOMAIN m THEN <<KeyOrder[i]>> ELSE <<>>) \o ItemsFrom(m, i + 1)

Keys(m) == ItemsFrom(m, 1)

\* attr.startswith("__")
startswith_dunder(attr) ==
    attr \in {"__codec__", "__fqn__", "__msgid__", "__timestamp__", "__version__"}

\* the exception the first raising item of a sequence of results raises, if any
FirstExc(results) ==
    IF \E i \in 1..Len(results) : IsExc(results[i])
    THEN results[CHOOSE i \in 1..Len(results) :
                    IsExc(results[i]) /\ \A j \in 1..(i - 1) : ~IsExc(results[j])]
    ELSE PNone

\* bool(v), as dict.get's result is tested in _dict_to_object
Truthy(v) ==
    CASE v.t = "None" -> FALSE
      [] v.t = "int" -> v.n # 0
      [] v.t = "str" -> v.s # <<>>
      [] v.t \in {"list", "tuple"} -> v.items # <<>>
      [] v.t \in {"dict", "Map"} -> DOMAIN v.m # {}
      [] v.t = "set" -> v.elems # {}
      [] OTHER -> TRUE

-----------------------------------------------------------------------------
(* Codecs (MarshallCodecProtocol): what a codec object does is its own; the     *)
(* marshall only calls handles, serialise and deserialise.                     *)

c1 == <<"c", "1">>
c2 == <<"c", "2">>

\* a codec for datetime, one for tuples and datetimes, and one that takes
\* about anything and keeps only the value's kind
DatetimeCodec == [id |-> "D", fcn |-> c1, handles |-> {"datetime"}]
TupleCodec == [id |-> "T", fcn |-> c2, handles |-> {"tuple", "datetime"}]
KindCodec == [id |-> "K", fcn |-> c2, handles |-> {"datetime", "tuple", "list", "dict", "int", "obj"}]

Codecs == {DatetimeCodec, TupleCodec, KindCodec}
CodecNames == {c1, c2}

Codec_handles(codec, data) == data.t \in codec.handles

Codec_serialise(codec, obj) ==
    LET params ==
            CASE codec.id = "K" -> ("kind" :> PStr(<<obj.t>>) @@ "by" :> PStr(<<codec.id>>))
              [] obj.t = "datetime" -> ("timestamp" :> PInt(obj.ts) @@ "by" :> PStr(<<codec.id>>))
              [] OTHER -> ("items" :> PList(obj.items) @@ "by" :> PStr(<<codec.id>>))
    IN  PDict("__codec__" :> PStr(codec.fcn) @@ "params" :> PDict(params))

Codec_deserialise(codec, params) ==
    IF params.t # "dict" THEN PExc("TypeError")
    ELSE IF codec.id = "K" THEN
         (IF "kind" \in DOMAIN params.m THEN params.m["kind"] ELSE PExc("KeyError"))
    ELSE IF "timestamp" \in DOMAIN params.m /\ params.m["timestamp"].t = "int"
         THEN PDatetime(params.m["timestamp"].n)
    ELSE IF codec.id = "T" /\ "items" \in DOMAIN params.m /\ params.m["items"].t = "list"
         THEN PTuple(params.m["items"].items)
    ELSE PExc("KeyError")

-----------------------------------------------------------------------------
(* Marshall: the registry *)

HasFcn(items, fcn) == \E i \in 1..Len(items) : items[i].fcn = fcn

Without(items, fcn) == SelectSeq(items, LAMBDA it : it.fcn # fcn)

\* self._codecs[fcn] = codec: a new key goes last, an existing key keeps its place
DictSet(items, fcn, codec) ==
    IF HasFcn(items, fcn)
    THEN [i \in 1..Len(items) |->
             IF items[i].fcn = fcn THEN [fcn |-> fcn, codec |-> codec] ELSE items[i]]
    ELSE Append(items, [fcn |-> fcn, codec |-> codec])

has_codec(fcn) == HasFcn(_codecs, fcn)

\* iteration over self._codecs.values()
CodecValues == [i \in 1..Len(_codecs) |-> _codecs[i].codec]

_is_handled_by_codec(data) ==
    \E i \in 1..Len(CodecValues) : Codec_handles(CodecValues[i], data)

\* A plausible bug: the loop keeps going and the last codec that handles the value wins
_object_to_codec_dict_last(obj) ==
    LET i == CHOOSE k \in 1..Len(CodecValues) :
                 /\ Codec_handles(CodecValues[k], obj)
                 /\ \A j \in (k + 1)..Len(CodecValues) : ~Codec_handles(CodecValues[j], obj)
    IN  Codec_serialise(CodecValues[i], obj)

_object_to_codec_dict(obj) ==
    IF \E k \in 1..Len(CodecValues) : Codec_handles(CodecValues[k], obj)
    THEN LET i == CHOOSE k \in 1..Len(CodecValues) :
                      /\ Codec_handles(CodecValues[k], obj)
                      /\ \A j \in 1..(k - 1) : ~Codec_handles(CodecValues[j], obj)
         IN  Codec_serialise(CodecValues[i], obj)
    ELSE PNone                                               \* the loop falls through

_is_sequence(data) == data.t \in {"list", "tuple"}

_is_mapping(data) == data.t \in {"dict", "set", "Map"}

_is_simple_type(data) == data.t \in {"None", "int", "str", "datetime"}

-----------------------------------------------------------------------------
(* The classes of tests/example/example_aggregate.py *)

ExampleCreated == <<"x", ".", "b">>
ExampleUpdated == <<"x", ".", "c">>
ExampleAggregate == <<"x", ".", "d">>

\* the named parameters a class's __init__ must be given, and those it may be given
RequiredParams(cls) ==
    IF cls = ExampleAggregate THEN {"uuid", "param_one", "param_two"}
    ELSE {"example_id", "param_one", "param_two"}

OptionalParams(cls) ==
    IF cls = ExampleAggregate THEN {} ELSE {"msgid", "timestamp"}

\* class attributes, read by getattr(_class, name) and hasattr(obj, name)
ClassAttrs(cls) ==
    IF cls = ExampleAggregate THEN EmptyDict ELSE ("version" :> PInt(1))

\* Message.__init__(msgid, timestamp) of eventz.messages: the metadata is
\* exposed as the attributes the marshall reads
Message_init(msgid, timestamp) ==
    ("__msgid__" :> msgid @@ "__timestamp__" :> timestamp)

\* _class(**kwargs)
Construct(cls, kwargs) ==
    IF ~(DOMAIN kwargs \subseteq RequiredParams(cls) \cup OptionalParams(cls))
    THEN PExc("TypeError")                                   \* unexpected keyword argument
    ELSE IF ~(RequiredParams(cls) \subseteq DOMAIN kwargs)
    THEN PExc("TypeError")                                   \* missing required argument
    ELSE LET given(p) == IF p \in DOMAIN kwargs THEN kwargs[p] ELSE PNone
             own == [p \in RequiredParams(cls) |-> kwargs[p]]
         IN  IF cls = ExampleAggregate THEN PObj(cls, own)
             ELSE PObj(cls, own @@ Message_init(given("msgid"), given("timestamp")))

hasattr(obj, name) == name \in DOMAIN obj.attrs \/ name \in DOMAIN ClassAttrs(obj.cls)

getattr(obj, name) ==
    IF name \in DOMAIN obj.attrs THEN obj.attrs[name] ELSE ClassAttrs(obj.cls)[name]

-----------------------------------------------------------------------------
(* Marshall: serialise_data *)

RECURSIVE serialise_data(_, _, _)
RECURSIVE _object_to_dict(_, _, _)

\* the results of the recursive calls on the values of m, in iteration order
InOrder(m, results) == [i \in 1..Len(Keys(m)) |-> results[Keys(m)[i]]]

\* data is the value, root the value the outermost call was given (what PSelf
\* refers to), depth the number of frames on the interpreter's stack
serialise_data(data0, root, depth) ==
    IF depth > RecursionLimit THEN PExc("RecursionError")
    ELSE
    LET data == IF data0.t = "self" THEN root ELSE data0
    IN  IF _is_handled_by_codec(data) THEN _object_to_codec_dict(data)
        ELSE IF _is_sequence(data) THEN
            LET new_sequence == [i \in 1..Len(data.items) |->
                                    serialise_data(data.items[i], root, depth + 1)]
            IN  IF IsExc(FirstExc(new_sequence)) THEN FirstExc(new_sequence)
                ELSE PList(new_sequence)
        ELSE IF _is_mapping(data) THEN
            IF data.t = "set" THEN PExc("AttributeError")        \* a set has no items()
            ELSE LET new_mapping == [k \in DOMAIN data.m |->
                                        serialise_data(data.m[k], root, depth + 1)]
                     raised == FirstExc(InOrder(data.m, new_mapping))
                 IN  IF IsExc(raised) THEN raised ELSE PDict(new_mapping)
        ELSE IF _is_simple_type(data) THEN data
        ELSE _object_to_dict(data, root, depth + 1)

_object_to_dict(obj, root, depth) ==
    IF depth > RecursionLimit THEN PExc("RecursionError")
    ELSE
    LET fqn == instance_to_fqn(obj.cls)
        version == IF hasattr(obj, "__version__")
                   THEN ("__version__" :> getattr(obj, "__version__")) ELSE EmptyDict
        msgid == IF hasattr(obj, "__msgid__")
                 THEN ("__msgid__" :> getattr(obj, "__msgid__")) ELSE EmptyDict
        timestamp == IF hasattr(obj, "__timestamp__")
                     THEN ("__timestamp__" :>
                              serialise_data(getattr(obj, "__timestamp__"), root, depth + 1))
                     ELSE EmptyDict
        json_data == IF hasattr(obj, "get_json_data")
                     THEN getattr(obj, "get_json_data").m         \* obj.get_json_data()
                     ELSE obj.attrs                               \* vars(obj)
        exported == {attr \in DOMAIN json_data : ~startswith_dunder(attr)}
        fields == [attr \in exported |-> serialise_data(json_data[attr], root, depth + 1)]
        raised == FirstExc(InOrder(timestamp, timestamp) \o InOrder(fields, fields))
    IN  IF fqn.exc # "" THEN PExc(fqn.exc)
        ELSE IF IsExc(raised) THEN raised
        ELSE PDict(fields @@ ("__fqn__" :> PStr(fqn.val)) @@ version @@ msgid @@ timestamp)

-----------------------------------------------------------------------------
(* json.dumps and json.loads.  The text is held as the tree of JSON values it *)
(* spells, members keyed by name (sort_keys).                                 *)

JNull == [j |-> "null"]
JNumber(n) == [j |-> "number", n |-> n]
JString(s) == [j |-> "string", s |-> s]
JArray(elements) == [j |-> "array", elements |-> elements]
JObject(members) == [j |-> "object", members |-> members]
JExc(e) == [j |-> "raise", exc |-> e]

RECURSIVE json_dumps(_)
json_dumps(data) ==
    CASE data.t = "None" -> JNull
      [] data.t = "int" -> JNumber(data.n)
      [] data.t = "str" -> JString(data.s)
      [] data.t \in {"list", "tuple"} ->
            LET elements == [i \in 1..Len(data.items) |-> json_dumps(data.items[i])]
            IN  IF \E i \in 1..Len(elements) : elements[i].j = "raise"
                THEN JExc("TypeError") ELSE JArray(elements)
      [] data.t = "dict" ->
            LET members == [k \in DOMAIN data.m |-> json_dumps(data.m[k])]
            IN  IF \E k \in DOMAIN members : members[k].j = "raise"
                THEN JExc("TypeError") ELSE JObject(members)
      [] OTHER -> JExc("TypeError")                  \* not JSON serializable

RECURSIVE json_loads(_)
json_loads(text) ==
    CASE text.j = "null" -> PNone
      [] text.j = "number" -> PInt(text.n)
      [] text.j = "string" -> PStr(text.s)
      [] text.j = "array" -> PList([i \in 1..Len(text.elements) |-> json_loads(text.elements[i])])
      [] text.j = "object" -> PDict([k \in DOMAIN text.members |-> json_loads(text.members[k])])

to_json(data) ==
    LET serialised == serialise_data(data, data, 1)
    IN  IF IsExc(serialised) THEN JExc(serialised.exc) ELSE json_dumps(serialised)

-----------------------------------------------------------------------------
(* Marshall: deserialise_data *)

_is_enum_dict(data) ==
    data.t = "dict" /\ "_value_" \in DOMAIN data.m /\ "_name_" \in DOMAIN data.m

_is_serialised_class(data) == data.t = "dict" /\ "__fqn__" \in DOMAIN data.m

_requires_codec(data) == data.t = "dict" /\ "__codec__" \in DOMAIN data.m

\* self._fqn_resolver.fqn_to_type(data["__fqn__"])
ResolveClass(data) ==
    IF "__fqn__" \notin DOMAIN data.m THEN PExc("KeyError")
    ELSE IF data.m["__fqn__"].t # "str" THEN PExc("TypeError")
    ELSE LET _class == fqn_to_type(data.m["__fqn__"].s)
         IN  IF _class.exc # "" THEN PExc(_class.exc) ELSE PStr(_class.val)

_dict_to_enum(data) ==
    LET _class == ResolveClass(data)
        name == data.m["_name_"]
    IN  IF IsExc(_class) THEN _class
        ELSE IF name.t # "str" THEN PExc("TypeError")
        ELSE IF Text(name.s) \in DOMAIN ClassAttrs(_class.s)
             THEN ClassAttrs(_class.s)[Text(name.s)]            \* getattr(_class, name)
             ELSE PExc("AttributeError")

_codec_dict_to_object(data) ==
    LET fcn == data.m["__codec__"]
    IN  IF fcn.t \in {"list", "dict"} THEN PExc("TypeError")       \* unhashable
        ELSE IF fcn.t # "str" \/ ~has_codec(fcn.s) THEN PExc("KeyError")
        ELSE IF "params" \notin DOMAIN data.m THEN PExc("KeyError")
        ELSE Codec_deserialise(_codecs[CHOOSE i \in 1..Len(_codecs) : _codecs[i].fcn = fcn.s].codec,
                               data.m["params"])

\* A plausible bug: the codec test is made before the class test
Branch_codec_first(data) ==
    IF _is_enum_dict(data) THEN "enum"
    ELSE IF _requires_codec(data) THEN "codec"
    ELSE IF _is_serialised_class(data) THEN "object"
    ELSE IF _is_sequence(data) THEN "sequence"
    ELSE IF _is_mapping(data) THEN "mapping"
    ELSE "simple"

\* the branch of deserialise_data that handles data
Branch(data) ==
    IF _is_enum_dict(data) THEN "enum"
    ELSE IF _is_serialised_class(data) THEN "object"
    ELSE IF _requires_codec(data) THEN "codec"
    ELSE IF _is_sequence(data) THEN "sequence"
    ELSE IF _is_mapping(data) THEN "mapping"
    ELSE "simple"

RECURSIVE deserialise_data(_)
RECURSIVE _dict_to_object(_)

deserialise_data(data) ==
    CASE Branch(data) = "enum" -> _dict_to_enum(data)
      [] Branch(data) = "object" -> _dict_to_object(data)
      [] Branch(data) = "codec" -> _codec_dict_to_object(data)
      [] Branch(data) = "sequence" ->
            LET new_sequence == [i \in 1..Len(data.items) |-> deserialise_data(data.items[i])]
            IN  IF IsExc(FirstExc(new_sequence)) THEN FirstExc(new_sequence)
                ELSE PList(new_sequence)
      [] Branch(data) = "mapping" ->
            IF data.t = "set" THEN PExc("AttributeError")
            ELSE LET new_mapping == [k \in DOMAIN data.m |-> deserialise_data(data.m[k])]
                     raised == FirstExc(InOrder(data.m, new_mapping))
                 IN  IF IsExc(raised) THEN raised ELSE PMap(new_mapping)
      [] OTHER -> data

_dict_to_object(data) ==
    LET get(k) == IF k \in DOMAIN data.m THEN data.m[k] ELSE PNone     \* data.get(k)
        msgid == IF Truthy(get("__msgid__"))
                 THEN ("__msgid__" :> get("__msgid__")) ELSE EmptyDict
        timestamp == IF Truthy(get("__timestamp__"))
                     THEN ("__timestamp__" :> deserialise_data(get("__timestamp__")))
                     ELSE EmptyDict
        plain == {key \in DOMAIN data.m : ~startswith_dunder(key)}
        fields == [key \in plain |-> deserialise_data(data.m[key])]
        raised == FirstExc(InOrder(timestamp, timestamp) \o InOrder(fields, fields))
        _class == ResolveClass(data)
    IN  IF IsExc(raised) THEN raised
        ELSE IF IsExc(_class) THEN _class
        ELSE Construct(_class.s, fields @@ msgid @@ timestamp)

from_json(json_string) == deserialise_data(json_loads(json_string))

-----------------------------------------------------------------------------
(* The marshall in use: codecs are registered and deregistered, values are     *)
(* serialised, payloads deserialised, and a text made by to_json is read back  *)
(* by from_json.  A call is made when the previous one has returned.           *)

\* the resolvers a marshall is built on
MarshallFqnMaps ==
    { << <<(<<"a", ".", "*">>), (<<"x", ".", "*">>)>> >>,
      << <<(<<"a", ".", "b">>), ExampleUpdated>>, <<(<<"a", ".", "*">>), (<<"x", ".", "*">>)>> >> }

Leaves == {PNone, PInt(1), PStr(<<"s">>), PDatetime(1)}

Sequences == {PList(items) : items \in SeqsUpTo(Leaves, MaxLen)}
             \cup {PTuple(items) : items \in SeqsUpTo(Leaves, MaxLen)}

\* instances of ExampleCreated, as its __init__ leaves them
Events(param_twos, msgids, timestamps) ==
    {Construct(ExampleCreated,
               "example_id" :> PStr(<<"e">>) @@ "param_one" :> PInt(1) @@ "param_two" :> p2
               @@ "msgid" :> m @@ "timestamp" :> ts) :
        p2 \in param_twos, m \in msgids, ts \in timestamps}

\* an instance whose class gives it a get_json_data() returning one field
Exporting ==
    PObj(ExampleAggregate, "uuid" :> PStr(<<"u">>) @@ "param_one" :> PInt(1) @@ "param_two" :> PInt(1)
                           @@ "get_json_data" :> PDict("uuid" :> PStr(<<"u">>)))

Aggregates ==
    {Construct(ExampleAggregate, "uuid" :> PStr(<<"u">>) @@ "param_one" :> PInt(1) @@ "param_two" :> p2) :
        p2 \in {PInt(1), PTuple(<<PInt(1)>>)}} \cup {Exporting}

\* the values a reserved or ordinary key of a payload may hold
NodeValues(k) ==
    CASE k = "__fqn__" -> {PStr(<<"a", ".", "b">>), PStr(<<"a", ".", "d">>), PStr(<<"d", ".", "b">>),
                           PStr(<<"d">>), PStr(<<>>)}
      [] k = "__codec__" -> {PStr(c1), PStr(c2)}
      [] k = "params" -> {PDict("timestamp" :> PInt(1) @@ "by" :> PStr(<<"D">>))}
      [] k = "_name_" -> {PStr(<<"v", "e", "r", "s", "i", "o", "n">>)}
      [] OTHER -> {PInt(1)}

NodeKeys == <<"__fqn__", "__codec__", "params", "_name_", "_value_", "k">>

RECURSIVE DictsOver(_)
\* the mappings whose keys are among the first n of NodeKeys
DictsOver(n) ==
    IF n = 0 THEN {EmptyDict}
    ELSE LET fewer == DictsOver(n - 1)
         IN  fewer \cup {m @@ (NodeKeys[n] :> v) : m \in fewer, v \in NodeValues(NodeKeys[n])}

Nodes == {PDict(m) : m \in DictsOver(Len(NodeKeys))}

\* an Object Envelope of ExampleCreated, with and without metadata
Envelopes ==
    {PDict("__fqn__" :> PStr(<<"a", ".", "b">>) @@ "example_id" :> PStr(<<"e">>)
           @@ "param_one" :> PInt(1) @@ "param_two" :> p2 @@ meta) :
        p2 \in {PInt(1), PList(<<PInt(1)>>), PDict("__codec__" :> PStr(c2) @@ "params" :> PInt(1))},
        meta \in {EmptyDict, "__msgid__" :> PStr(<<"m">>), "__msgid__" :> PStr(<<>>),
                  "__codec__" :> PStr(c1)}}

CodecEnvelopes == {n \in Nodes : DOMAIN n.m = {"__codec__", "params"}}

Nested ==
    LET inner == {PList(<<PInt(1)>>), PTuple(<<PInt(1)>>), PDict("k" :> PInt(1)),
                  PMap("k" :> PInt(1)), PSet({})}
                 \cup Events({PInt(1)}, {PNone}, {PNone}) \cup CodecEnvelopes
    IN  {PList(<<v>>) : v \in inner} \cup {PDict("k" :> v) : v \in inner}
        \cup {PList(<<PInt(1), v>>) : v \in CodecEnvelopes}

\* structures that reach themselves
Cyclic ==
    {PList(<<PSelf>>), PList(<<PInt(1), PSelf>>), PList(<<PSelf, PSelf>>),
     PList(<<PList(<<PSelf>>)>>), PTuple(<<PList(<<PSelf>>)>>),
     PDict("k" :> PSelf), PMap("k" :> PSelf)}
    \cup Events({PSelf}, {PNone}, {PNone})

Values ==
    Leaves \cup Sequences \cup Nodes \cup Nested \cup Aggregates \cup Cyclic
    \cup {PMap("k" :> PInt(1)), PSet({}), PSet({PInt(1)})}
    \cup Events({PInt(1), PTuple(<<PInt(1)>>), PDict("k" :> PInt(1))},
                {PNone, PStr(<<"m">>)}, {PNone, PDatetime(1)})

Payloads ==
    (Leaves \ {PDatetime(1)}) \cup {PList(items) : items \in SeqsUpTo(Leaves \ {PDatetime(1)}, MaxLen)}
    \cup Nodes \cup Envelopes
    \cup {v \in Nested : json_dumps(v).j # "raise" /\ v = json_loads(json_dumps(v))}

Init ==
    /\ \E m \in MarshallFqnMaps : ResolverInit(m)
    /\ _codecs = <<>>
    /\ reg_log = NoLog
    /\ call = NoCall

Idle == call.op = "none"

RegisterCodec(fcn, codec) ==
    /\ Idle
    /\ _codecs' = DictSet(_codecs, fcn, codec)
    /\ reg_log' = [called |-> Append(SelectSeq(reg_log.called, LAMBDA n : n # fcn), fcn),
                   placed |-> IF \E i \in 1..Len(reg_log.placed) : reg_log.placed[i] = fcn
                              THEN reg_log.placed ELSE Append(reg_log.placed, fcn)]
    /\ call' = [op |-> "register_codec", fcn |-> fcn, ret |-> PNone]
    /\ UNCHANGED <<fqn_map, _public_to_private, _private_to_public>>

\* A plausible bug: dict.pop(fcn, None) in place of del
deregister_codec_silent(fcn) == [codecs |-> Without(_codecs, fcn), ret |-> PNone]

\* del self._codecs[fcn]: the registry afterwards, and what the call returns or raises
deregister_codec(fcn) ==
    IF HasFcn(_codecs, fcn)
    THEN [codecs |-> Without(_codecs, fcn), ret |-> PNone]
    ELSE [codecs |-> _codecs, ret |-> PExc("KeyError")]

DeregisterCodec(fcn) ==
    /\ Idle
    /\ _codecs' = deregister_codec(fcn).codecs
    /\ reg_log' = IF HasFcn(_codecs, fcn)
                  THEN [called |-> SelectSeq(reg_log.called, LAMBDA n : n # fcn),
                        placed |-> SelectSeq(reg_log.placed, LAMBDA n : n # fcn)]
                  ELSE reg_log
    /\ call' = [op |-> "deregister_codec", fcn |-> fcn, before |-> _codecs,
                ret |-> deregister_codec(fcn).ret]
    /\ UNCHANGED <<fqn_map, _public_to_private, _private_to_public>>

Serialise(data) ==
    /\ Idle
    /\ call' = [op |-> "serialise_data", arg |-> data, ret |-> serialise_data(data, data, 1)]
    /\ UNCHANGED <<fqn_map, _public_to_private, _private_to_public, _codecs, reg_log>>

Deserialise(data) ==
    /\ Idle
    /\ call' = [op |-> "deserialise_data", arg |-> data, branch |-> Branch(data),
                ret |-> deserialise_data(data)]
    /\ UNCHANGED <<fqn_map, _public_to_private, _private_to_public, _codecs, reg_log>>

ToJson(data) ==
    /\ Idle
    /\ call' = [op |-> "to_json", arg |-> data, ret |-> to_json(data)]
    /\ UNCHANGED <<fqn_map, _public_to_private, _private_to_public, _codecs, reg_log>>

\* the text to_json has just returned is read back
FromJson ==
    /\ call.op = "to_json"
    /\ call.ret.j # "raise"
    /\ call' = [op |-> "from_json", arg |-> call.ret, value |-> call.arg, ret |-> from_json(call.ret)]
    /\ UNCHANGED <<fqn_map, _public_to_private, _private_to_public, _codecs, reg_log>>

Return ==
    /\ ~Idle
    /\ call' = NoCall
    /\ UNCHANGED <<fqn_map, _public_to_private, _private_to_public, _codecs, reg_log>>

Next ==
    \/ \E fcn \in CodecNames, codec \in Codecs : RegisterCodec(fcn, codec)
    \/ \E fcn \in CodecNames : DeregisterCodec(fcn)
    \/ \E data \in Values : Serialise(data)
    \/ \E data \in Payloads : Deserialise(data)
    \/ \E data \in Values : ToJson(data)
    \/ FromJson
    \/ Return

Spec == Init /\ [][Next]_vars

-----------------------------------------------------------------------------
(* Claims about the resolver *)

IsResolverCall == call.op \in {"fqn_to_type", "instance_to_fqn"}

\* the side of fqn_map a call looks its key up in (1: public, 2: private) and the side it answers with
KeySide == IF call.op = "fqn_to_type" THEN 1 ELSE 2
TargetSide == IF call.op = "fqn_to_type" THEN 2 ELSE 1

HasEntry(k, side) == \E i \in 1..Len(fqn_map) : fqn_map[i][side] = k

\* the key with its final segment replaced by the wildcard marker
StarOf(k) == join(Front(split(k)) \o << <<"*">> >>)

\* C3: when fqn_map holds an exact entry for the path resolved, the answer is
\* the target of an exact entry of fqn_map for that path, in both directions,
\* whether or not a wildcard entry covers the path's namespace as well.
C3_ExactOverWildcard ==
    (IsResolverCall /\ HasEntry(call.key, KeySide)) =>
        /\ call.path.exc = ""
        /\ \E i \in 1..Len(fqn_map) :
              fqn_map[i][KeySide] = call.key /\ fqn_map[i][TargetSide] = call.path.val

\* C3 witness: a private path with an exact entry and a wildcard entry over its
\* namespace, whose wildcard-derived public path differs from the one returned.
C3_Witness ==
    /\ call.op = "instance_to_fqn"
    /\ HasEntry(call.key, 2)
    /\ HasEntry(StarOf(call.key), 2)
    /\ StarOf(call.key) # call.key
    /\ call.path.exc = ""
    /\ \E i \in 1..Len(fqn_map) :
          /\ fqn_map[i][2] = StarOf(call.key)
          /\ Front(fqn_map[i][1]) \o split(call.key)[Len(split(call.key))] # call.path.val

\* the wildcard entry's target for key, were the fallback taken
WildcardAnswer(k) ==
    LET i == CHOOSE j \in 1..Len(fqn_map) :
                 /\ fqn_map[j][KeySide] = StarOf(k)
                 /\ (KeySide = 2 => \A h \in (j + 1)..Len(fqn_map) : fqn_map[h][2] # StarOf(k))
    IN  Front(fqn_map[i][TargetSide]) \o split(k)[Len(split(k))]

\* C4 as claimed: a path with no exact entry that contains a separator and whose
\* wildcard key has an entry resolves to that entry's target prefix plus the
\* path's final segment.
C4_WildcardFallback_Claimed ==
    (/\ IsResolverCall
     /\ ~HasEntry(call.key, KeySide)
     /\ "." \in Chars(call.key)
     /\ HasEntry(StarOf(call.key), KeySide)) =>
        call.path = Ok(WildcardAnswer(call.key))

\* C4 as amended: the same, for a path whose last character is not the
\* wildcard marker.
C4_WildcardFallback ==
    (/\ IsResolverCall
     /\ ~HasEntry(call.key, KeySide)
     /\ "." \in Chars(call.key)
     /\ call.key[Len(call.key)] # "*"
     /\ HasEntry(StarOf(call.key), KeySide)) =>
        call.path = Ok(WildcardAnswer(call.key))

\* C4 witness: with only {"a.*": "x.*"}, public "a.b" has resolved to "x.b".
C4_Witness ==
    /\ fqn_map = << <<(<<"a", ".", "*">>), (<<"x", ".", "*">>)>> >>
    /\ call.op = "fqn_to_type"
    /\ call.key = <<"a", ".", "b">>
    /\ call.path = Ok(<<"x", ".", "b">>)

\* C10: the two tables are consistent: no private path is the target of two
\* entries, and a resolution in one direction is undone by the resolution in
\* the other.
C10_NameMapConsistent ==
    /\ \A i, j \in 1..Len(fqn_map) : i # j => fqn_map[i][2] # fqn_map[j][2]
    /\ (call.op = "fqn_to_type" /\ call.path.exc = "") =>
           _get_fqn(call.path.val, FALSE) = Ok(call.key)
    /\ (call.op = "instance_to_fqn" /\ call.path.exc = "") =>
           _get_fqn(call.path.val, TRUE) = Ok(call.key)

-----------------------------------------------------------------------------
(* Claims about the marshall *)

\* the exception the code keeps for a codec that is not registered
NoCodecError == "NoCodecError"

\* the code defines no exception of its own for a failed resolution: a path
\* with no entry leaves _get_fqn as the KeyError of _lookup_fqn
ResolutionError == "KeyError"

\* the codec registered under fcn
CodecOf(fcn) == _codecs[CHOOSE i \in 1..Len(_codecs) : _codecs[i].fcn = fcn].codec

\* the first name of order whose codec handles data
FirstHandling(order, data) ==
    order[CHOOSE i \in 1..Len(order) :
              /\ Codec_handles(CodecOf(order[i]), data)
              /\ \A j \in 1..(i - 1) : ~Codec_handles(CodecOf(order[j]), data)]

SomeCodecHandles(data) ==
    \E i \in 1..Len(_codecs) : Codec_handles(_codecs[i].codec, data)

\* C2 as claimed: a value some registered codec handles is serialised by the
\* first such codec in the order of the register_codec calls that registered
\* the codecs, whatever else the value qualifies for.
C2_CodecPrecedence_Claimed ==
    (call.op = "serialise_data" /\ SomeCodecHandles(call.arg)) =>
        call.ret = Codec_serialise(CodecOf(FirstHandling(reg_log.called, call.arg)), call.arg)

\* C2 as amended: a value some registered codec handles is serialised by the
\* first such codec in the order in which the names were first registered (a
\* name registered again keeps its place), whatever else the value qualifies for.
C2_CodecPrecedence ==
    (call.op = "serialise_data" /\ SomeCodecHandles(call.arg)) =>
        call.ret = Codec_serialise(CodecOf(FirstHandling(reg_log.placed, call.arg)), call.arg)

\* C2 witness: a list, dict, int or object that two registered codecs handle,
\* differently, has been serialised by the first of them.
C2_Witness ==
    /\ call.op = "serialise_data"
    /\ call.arg.t \in {"list", "tuple", "dict", "int", "obj"}
    /\ Len(_codecs) = 2
    /\ Codec_handles(_codecs[1].codec, call.arg)
    /\ Codec_handles(_codecs[2].codec, call.arg)
    /\ Codec_serialise(_codecs[1].codec, call.arg) # Codec_serialise(_codecs[2].codec, call.arg)
    /\ call.ret = Codec_serialise(_codecs[1].codec, call.arg)

RECURSIVE HasSelf(_)
\* data reaches itself through its elements, values or fields
HasSelf(data) ==
    CASE data.t = "self" -> TRUE
      [] data.t \in {"list", "tuple"} -> \E i \in 1..Len(data.items) : HasSelf(data.items[i])
      [] data.t \in {"dict", "Map"} -> \E k \in DOMAIN data.m : HasSelf(data.m[k])
      [] data.t = "obj" -> \E k \in DOMAIN data.attrs : HasSelf(data.attrs[k])
      [] OTHER -> FALSE

\* C5: serialising a self-referential structure fails with the cyclic-structure
\* error, and the recursion never runs the stack out.
C5_CycleDetected ==
    (call.op = "serialise_data" /\ HasSelf(call.arg)) =>
        /\ call.ret = PExc("CyclicStructureError")
        /\ call.ret # PExc("RecursionError")

\* C6: deregister_codec of a name that is not registered raises KeyError and
\* leaves the registry as it was: has_codec answers for every name as before.
C6_DeregisterUnknown ==
    (call.op = "deregister_codec" /\ ~HasFcn(call.before, call.fcn)) =>
        /\ call.ret = PExc("KeyError")
        /\ \A fcn \in CodecNames : has_codec(fcn) <=> HasFcn(call.before, fcn)
        /\ _codecs = call.before

\* C6 witness: with a codec registered, the deregistration of another name has failed.
C6_Witness ==
    /\ call.op = "deregister_codec"
    /\ call.before # <<>>
    /\ ~HasFcn(call.before, call.fcn)
    /\ call.ret = PExc("KeyError")

\* C7: a Codec Envelope whose codec name is not registered fails with the
\* codec-not-found error.
C7_UnknownCodec ==
    (/\ call.op = "deserialise_data"
     /\ call.branch = "codec"
     /\ call.arg.m["__codec__"].t = "str"
     /\ ~has_codec(call.arg.m["__codec__"].s)) =>
        call.ret = PExc(NoCodecError)

\* fqn has neither an exact nor a wildcard entry in fqn_map
Unmapped(fqn) == ~HasEntry(fqn, 1) /\ ~HasEntry(StarOf(fqn), 1)

\* C8: an Object or Enum Envelope whose type identifier has no entry, exact or
\* wildcard, fails with the resolution error, with or without a separator in
\* the identifier.
C8_UnknownType ==
    (/\ call.op = "deserialise_data"
     /\ call.branch \in {"enum", "object"}
     /\ "__fqn__" \in DOMAIN call.arg.m
     /\ call.arg.m["__fqn__"].t = "str"
     /\ Unmapped(call.arg.m["__fqn__"].s)) =>
        call.ret = PExc(ResolutionError)

\* the kind of node the reserved keys of a mapping make it
KindByKeys(keys) ==
    IF {"_name_", "_value_"} \subseteq keys THEN "enum"
    ELSE IF "__fqn__" \in keys THEN "object"
    ELSE IF "__codec__" \in keys THEN "codec"
    ELSE "mapping"

\* C9: a mapping given to deserialise_data is handled as the one kind its
\* reserved keys make it, enum before object before codec before plain
\* mapping, and what comes back is of that kind: an instance for an Object
\* Envelope, the registered codec's value for a Codec Envelope, an immutable
\* mapping of the same keys for a plain mapping.
C9_Classification ==
    (call.op = "deserialise_data" /\ call.arg.t = "dict") =>
        LET kind == KindByKeys(DOMAIN call.arg.m)
        IN  /\ call.branch = kind
            /\ IsExc(call.ret) \/
                 CASE kind = "enum" ->
                        \E c \in Types : \E a \in DOMAIN ClassAttrs(c) : call.ret = ClassAttrs(c)[a]
                   [] kind = "object" -> call.ret.t = "obj"
                   [] kind = "codec" ->
                        call.ret = Codec_deserialise(CodecOf(call.arg.m["__codec__"].s),
                                                     call.arg.m["params"])
                   [] kind = "mapping" ->
                        call.ret.t = "Map" /\ DOMAIN call.ret.m = DOMAIN call.arg.m

\* C9 witness: a mapping with the type-identifier key and the codec-name key
\* has come back as an instance.
C9_Witness ==
    /\ call.op = "deserialise_data"
    /\ call.arg.t = "dict"
    /\ {"__fqn__", "__codec__"} \subseteq DOMAIN call.arg.m
    /\ call.branch = "object"
    /\ call.ret.t = "obj"

\* the codecs of the registry are each registered under the name they write
\* and give back what they were given
FaithfulRegistry ==
    \A i \in 1..Len(_codecs) : _codecs[i].codec.fcn = _codecs[i].fcn /\ _codecs[i].codec.id # "K"

RECURSIVE InRoundTripClass(_)
\* data is built from primitives, lists and tuples, mappings, values a
\* registered codec handles, and objects whose constructor accepts the fields
\* they export
InRoundTripClass(data) ==
    IF data.t \in {"self", "raise", "set"} THEN FALSE
    ELSE IF SomeCodecHandles(data) THEN TRUE
    ELSE CASE data.t \in {"None", "int", "str"} -> TRUE
           [] data.t \in {"list", "tuple"} ->
                 \A i \in 1..Len(data.items) : InRoundTripClass(data.items[i])
           [] data.t \in {"dict", "Map"} -> \A k \in DOMAIN data.m : InRoundTripClass(data.m[k])
           [] data.t = "obj" ->
                 LET exported == {a \in DOMAIN data.attrs : ~startswith_dunder(a)}
                 IN  /\ ~hasattr(data, "get_json_data")
                     /\ exported \subseteq RequiredParams(data.cls) \cup OptionalParams(data.cls)
                     /\ RequiredParams(data.cls) \subseteq exported
                     /\ \A a \in DOMAIN data.attrs : InRoundTripClass(data.attrs[a])
           [] OTHER -> FALSE

RECURSIVE Plain(_)
\* data with its immutable mappings read as mappings
Plain(data) ==
    CASE data.t \in {"list", "tuple"} ->
            [data EXCEPT !.items = [i \in 1..Len(data.items) |-> Plain(data.items[i])]]
      [] data.t \in {"dict", "Map"} -> PDict([k \in DOMAIN data.m |-> Plain(data.m[k])])
      [] data.t = "obj" -> PObj(data.cls, [k \in DOMAIN data.attrs |-> Plain(data.attrs[k])])
      [] OTHER -> data

\* C1: to_json succeeds on every value of the round-trip class, and from_json
\* of its text is equal to the value, a decoded mapping being equal to the
\* mapping it was encoded from.
C1_RoundTrip ==
    /\ (call.op = "to_json" /\ FaithfulRegistry /\ InRoundTripClass(call.arg)) =>
           call.ret.j # "raise"
    /\ (call.op = "from_json" /\ FaithfulRegistry /\ InRoundTripClass(call.value)) =>
           Plain(call.ret) = Plain(call.value)

====
